---- MODULE Spec2Model ----
(***************************************************************************)
(* Model of src/src/main.rs: a command-line pipeline that loads a GGUF     *)
(* model, creates a llama.cpp session, reads a diff, builds a prompt,      *)
(* feeds it, streams the completion to standard output and reports the     *)
(* elapsed time.  One action per statement of main(); the llama_cpp crate  *)
(* and the operating system are the environment, whose outcomes are drawn  *)
(* with \E.  Standard output is assumed writable (print! would panic       *)
(* otherwise); text is a sequence of tokens.                               *)
(***************************************************************************)
EXTENDS Integers, Sequences, FiniteSets

\* ---------------------------------------------------------------- bounds
MaxTokensBound == 2
MaxDiffLen == 2

\* ------------------------------------------------------- input alphabets
\* Tokens a diff is made of.  FENCE stands for a line of three backquotes
\* (a diff is not escaped, so it may hold one); FENCE diff is the line that
\* opens the fenced block of the template.
DiffAlphabet == {"a", "FENCE"}
\* Text fragments the engine can return from one pull.
Fragments == {"x", "y"}
\* Values of the command-line arguments the runs are drawn from.
Temperatures == {2, 8}
TopPs == {50, 95}
TopKs == {0, 40}
Contexts == {16, 4096}
Inputs == {"stdin", "file"}

SeqsUpTo(S, n) == UNION {[1..k -> S] : k \in 0..n}
Diffs == SeqsUpTo(DiffAlphabet, MaxDiffLen)

\* ------------------------------------------------------------- constants
SYSTEM_INSTRUCTIONS ==
    << "You are CommitBot, an expert at crafting precise Conventional Commit messages.",
       "Follow these rules strictly:",
       "- Output ONLY the commit message, no preamble or explanation.",
       "- Use Conventional Commits format: type(scope): summary",
       "- Add a brief body if helpful.",
       "- Include \"BREAKING CHANGE: ...\" if applicable.",
       "- Keep summary to <= 72 chars, present-tense, imperative mood.",
       "- Derive scope from paths in the diff when possible." >>

\* The part of the format string before {diff}: one token per line.
TemplateHead ==
    << "<|system|>" >> \o SYSTEM_INSTRUCTIONS \o
    << "",
       "<|user|>",
       "Given the following unified git diff, write a single Conventional Commit message.",
       "Do not include code fences. Do not include \"Message:\" or any explanation.",
       "If the change is trivial (whitespace/comments), reply with \"chore: minor housekeeping\".",
       "",
       "Diff:",
       "FENCE diff" >>

\* The part of the format string after {diff}.
TemplateTail == << "\n", "            <|assistant|>" >>

build_prompt(d) == TemplateHead \o d \o TemplateTail

\* n_ctx: args.context as u32 (value-preserving on the non-negative
\* contexts the runs are drawn from).
SessionParamsOf(a) == a.context

\* Variant: the sampler is built from the hyperparameters.
SamplerTuned(a) == << a.temperature, a.top_p, a.top_k >>

\* StandardSampler::default(): no argument is consulted.
SamplerOf(a) == "default"

\* Variant: the budget is one more than configured.
MaxTokensOffByOne(a) == a.max_tokens + 1

\* The token budget handed to start_completing_with.
MaxTokensOf(a) == a.max_tokens

\* ------------------------------------------------------------- the state
VARIABLES
    pc,           \* position in main()
    args,         \* parsed command line
    args2,        \* a second command line differing only in the sampling
                  \* hyperparameters (shadow run on the same environment)
    modelHeld,    \* model is alive
    sessionHeld,  \* session is alive
    streamHeld,   \* stream_iter is alive
    diff,         \* result of read_diff
    prompt,       \* result of build_prompt
    sampler,      \* the sampler value
    budget,       \* max_tokens as received by the engine
    chunk,        \* loop variable
    out,          \* the String out
    stdoutBuf,    \* bytes printed but not yet flushed
    stdout,       \* bytes delivered to standard output
    stderr,       \* messages written to standard error
    result,       \* "running", "ok" (main returned Ok) or "err"
    errCtx,       \* context of the error main returned
    exitCode,     \* process exit status, -1 while running
    now,          \* logical clock, one tick per statement
    start,        \* Instant captured by the timer, -1 before
    submitAt,     \* clock value when advance_context was called, -1 before
    elapsed,      \* value printed in the summary, -1 before
    produced,     \* fragments the engine has produced so far
    pulls,        \* number of calls of the iterator next()
    endReason,    \* why the iterator ended: "none", "budget", "eos", "fail"
    deliveredAtFail, \* Len(stdout) when the engine failed, -1 otherwise
    stages,       \* log of the stages main() has entered
    calls,        \* log of the engine calls with their arguments
    calls2,       \* the same log for the shadow command line
    stdout2,      \* standard output of the shadow run
    feedResult    \* what advance_context returned: "none", "ok" or "err"

vars == << pc, args, args2, feedResult, modelHeld, sessionHeld, streamHeld, diff, prompt,
           sampler, budget, chunk, out, stdoutBuf, stdout, stderr, result,
           errCtx, exitCode, now, start, submitAt, elapsed, produced, pulls,
           endReason, deliveredAtFail, stages, calls, calls2, stdout2 >>

ArgsSet ==
    [ max_tokens : 0..MaxTokensBound, temperature : Temperatures,
      top_p : TopPs, top_k : TopKs, context : Contexts, input : Inputs,
      show_prompt : BOOLEAN ]

Init ==
    /\ pc = "load"
    /\ args \in ArgsSet
    /\ \E t \in Temperatures, p \in TopPs, k \in TopKs :
          args2 = [args EXCEPT !.temperature = t, !.top_p = p, !.top_k = k]
    /\ modelHeld = FALSE /\ sessionHeld = FALSE /\ streamHeld = FALSE
    /\ diff = << >> /\ prompt = << >>
    /\ sampler = "none" /\ budget = -1 /\ chunk = "none"
    /\ out = << >> /\ stdoutBuf = << >> /\ stdout = << >> /\ stderr = << >>
    /\ result = "running" /\ errCtx = "none" /\ exitCode = -1
    /\ now = 0 /\ start = -1 /\ submitAt = -1 /\ elapsed = -1
    /\ produced = << >> /\ pulls = 0 /\ endReason = "none"
    /\ deliveredAtFail = -1
    /\ stages = << >> /\ calls = << >> /\ calls2 = << >>
    /\ stdout2 = << >>
    /\ feedResult = "none"

\* ----------------------------------------------------------- the actions
\* Variant: the diff is read and the prompt built before the session is
\* created.
SuccDiffFirst(p) ==
    CASE p = "load"            -> "read_diff"
      [] p = "read_diff"       -> "build_prompt"
      [] p = "build_prompt"    -> "create_session"
      [] p = "create_session"  -> "feed"
      [] p = "feed"            -> "sampler"
      [] p = "sampler"         -> "timer"
      [] p = "timer"           -> "start_completing"
      [] p = "start_completing" -> "pull"
      [] p = "report"          -> "return"
      [] p = "return"          -> "drop_session"
      [] p = "drop_session"    -> "drop_model"
      [] p = "drop_model"      -> "exit"

\* The statements of main() in program order: the position reached when the
\* statement at position p completes without an early return.
Succ(p) ==
    CASE p = "load"            -> "create_session"
      [] p = "create_session"  -> "read_diff"
      [] p = "read_diff"       -> "build_prompt"
      [] p = "build_prompt"    -> "feed"
      [] p = "feed"            -> "sampler"
      [] p = "sampler"         -> "timer"
      [] p = "timer"           -> "start_completing"
      [] p = "start_completing" -> "pull"
      [] p = "report"          -> "return"
      [] p = "return"          -> "drop_session"
      [] p = "drop_session"    -> "drop_model"
      [] p = "drop_model"      -> "exit"

\* The ? operator applied at position p: on Ok the run goes on, on Err main
\* returns the error (with its context) and the live locals are dropped.
Try(ok, ctx, p) ==
    IF ok
    THEN [pc |-> Succ(p), result |-> "running", errCtx |-> "none"]
    ELSE [pc |-> "drop_session", result |-> "err", errCtx |-> ctx]

\* Variant: the result of advance_context is discarded.
FeedTryIgnored(ok) == Try(TRUE, "feeding prompt", "feed")

\* session.advance_context(prompt).context("feeding prompt")?
FeedTry(ok) == Try(ok, "feeding prompt", "feed")

\* Variant: the flush is missing and the buffered text is delivered late.
FlushSkipped(buf, so) == so

\* io::stdout().flush(): the buffered text reaches standard output.
FlushTo(buf, so) == so \o buf

\* Variant: the local is forgotten instead of dropped.
Leaked(held) == held

\* Dropping a local releases the resource it owns.
Dropped(held) == FALSE

\* What one pull of the engine can give once it has produced n fragments
\* under a budget of b: nothing more once the budget is used up, otherwise
\* a fragment, end-of-sequence or a failure.
EngineOutcomes(n, b) ==
    IF n >= b THEN {"budget"} ELSE Fragments \cup {"eos", "fail"}

\* The iterator of into_strings() has Item = String: a pull gives Some(text)
\* or None, and None is all it can say about the end of the stream.
IterNext(o) == IF o \in Fragments THEN o ELSE "None"

Tick == now' = now + 1

\* LlamaModel::load_from_file(...).context("loading model")?
LoadModel ==
    /\ pc = "load"
    /\ Tick
    /\ stages' = Append(stages, "load")
    /\ calls' = Append(calls, << "load_from_file", "default" >>)
    /\ calls2' = Append(calls2, << "load_from_file", "default" >>)
    /\ \E ok \in BOOLEAN :
          LET t == Try(ok, "loading model", "load") IN
          /\ modelHeld' = ok
          /\ pc' = t.pc /\ result' = t.result /\ errCtx' = t.errCtx
    /\ UNCHANGED << args, args2, feedResult, sessionHeld, streamHeld, diff, prompt,
                    sampler, budget, chunk, out, stdoutBuf, stdout, stderr,
                    exitCode, start, submitAt, elapsed, produced, pulls,
                    endReason, deliveredAtFail, stdout2 >>

\* model.create_session(SessionParams { n_ctx, .. }).context("creating session")?
CreateSession ==
    /\ pc = "create_session"
    /\ Tick
    /\ stages' = Append(stages, "create_session")
    /\ calls' = Append(calls, << "create_session", SessionParamsOf(args) >>)
    /\ calls2' = Append(calls2, << "create_session", SessionParamsOf(args2) >>)
    /\ \E ok \in BOOLEAN :
          LET t == Try(ok, "creating session", "create_session") IN
          /\ sessionHeld' = ok
          /\ pc' = t.pc /\ result' = t.result /\ errCtx' = t.errCtx
    /\ UNCHANGED << args, args2, feedResult, modelHeld, streamHeld, diff, prompt,
                    sampler, budget, chunk, out, stdoutBuf, stdout, stderr,
                    exitCode, start, submitAt, elapsed, produced, pulls,
                    endReason, deliveredAtFail, stdout2 >>

\* read_diff(&args)?: the file (error with context) or standard input.
read_diff ==
    /\ pc = "read_diff"
    /\ Tick
    /\ stages' = Append(stages, "read_diff")
    /\ \/ \E d \in Diffs :
             LET t == Try(TRUE, "none", "read_diff") IN
             /\ diff' = d
             /\ pc' = t.pc /\ result' = t.result /\ errCtx' = t.errCtx
       \/ LET t == Try(FALSE,
                       IF args.input = "file" THEN "reading diff from"
                                              ELSE "io",
                       "read_diff") IN
          /\ pc' = t.pc /\ result' = t.result /\ errCtx' = t.errCtx
          /\ UNCHANGED diff
    /\ UNCHANGED << args, args2, feedResult, modelHeld, sessionHeld, streamHeld, prompt,
                    sampler, budget, chunk, out, stdoutBuf, stdout, stderr,
                    exitCode, start, submitAt, elapsed, produced, pulls,
                    endReason, deliveredAtFail, calls, calls2, stdout2 >>

\* let prompt = build_prompt(&diff); if args.show_prompt { eprintln!(..) }
BuildPrompt ==
    /\ pc = "build_prompt"
    /\ Tick
    /\ stages' = Append(stages, "build_prompt")
    /\ prompt' = build_prompt(diff)
    /\ stderr' = IF args.show_prompt THEN Append(stderr, "prompt") ELSE stderr
    /\ pc' = Succ(pc)
    /\ UNCHANGED << args, args2, feedResult, modelHeld, sessionHeld, streamHeld, diff,
                    sampler, budget, chunk, out, stdoutBuf, stdout, result,
                    errCtx, exitCode, start, submitAt, elapsed, produced,
                    pulls, endReason, deliveredAtFail, calls, calls2,
                    stdout2 >>

\* session.advance_context(prompt).context("feeding prompt")?
FeedPrompt ==
    /\ pc = "feed"
    /\ Tick
    /\ stages' = Append(stages, "feed")
    /\ submitAt' = now
    /\ calls' = Append(calls, << "advance_context", prompt >>)
    /\ calls2' = Append(calls2, << "advance_context", prompt >>)
    /\ \E ok \in BOOLEAN :
          LET t == FeedTry(ok) IN
          /\ feedResult' = IF ok THEN "ok" ELSE "err"
          /\ pc' = t.pc /\ result' = t.result /\ errCtx' = t.errCtx
    /\ UNCHANGED << args, args2, modelHeld, sessionHeld, streamHeld, diff,
                    prompt, sampler, budget, chunk, out, stdoutBuf, stdout,
                    stderr, exitCode, start, elapsed, produced, pulls,
                    endReason, deliveredAtFail, stdout2 >>

\* let sampler = StandardSampler::default();
MakeSampler ==
    /\ pc = "sampler"
    /\ Tick
    /\ sampler' = SamplerOf(args)
    /\ pc' = Succ(pc)
    /\ UNCHANGED << args, args2, feedResult, modelHeld, sessionHeld, streamHeld, diff,
                    prompt, budget, chunk, out, stdoutBuf, stdout, stderr,
                    result, errCtx, exitCode, start, submitAt, elapsed,
                    produced, pulls, endReason, deliveredAtFail, stages,
                    calls, calls2, stdout2 >>

\* let start = Instant::now();
StartTimer ==
    /\ pc = "timer"
    /\ Tick
    /\ start' = now
    /\ pc' = Succ(pc)
    /\ UNCHANGED << args, args2, feedResult, modelHeld, sessionHeld, streamHeld, diff,
                    prompt, sampler, budget, chunk, out, stdoutBuf, stdout,
                    stderr, result, errCtx, exitCode, submitAt, elapsed,
                    produced, pulls, endReason, deliveredAtFail, stages,
                    calls, calls2, stdout2 >>

\* session.start_completing_with(sampler, args.max_tokens)?.into_strings();
\* let mut out = String::new();
StartCompleting ==
    /\ pc = "start_completing"
    /\ Tick
    /\ stages' = Append(stages, "start_completing")
    /\ calls' = Append(calls,
                  << "start_completing_with", sampler, MaxTokensOf(args) >>)
    /\ calls2' = Append(calls2,
                  << "start_completing_with", SamplerOf(args2),
                     MaxTokensOf(args2) >>)
    /\ \E ok \in BOOLEAN :
          LET t == Try(ok, "start_completing_with", "start_completing") IN
          /\ streamHeld' = ok
          /\ budget' = IF ok THEN MaxTokensOf(args) ELSE budget
          /\ pc' = t.pc /\ result' = t.result /\ errCtx' = t.errCtx
    /\ out' = << >>
    /\ UNCHANGED << args, args2, feedResult, modelHeld, sessionHeld, diff, prompt,
                    sampler, chunk, stdoutBuf, stdout, stderr, exitCode,
                    start, submitAt, elapsed, produced, pulls, endReason,
                    deliveredAtFail, stdout2 >>

\* for chunk in stream_iter: one call of next().  Some(text) enters the
\* loop body; None leaves the loop, whatever ended the stream, and the
\* iterator is dropped.
Pull ==
    /\ pc = "pull"
    /\ Tick
    /\ stages' = Append(stages, "pull")
    /\ pulls' = pulls + 1
    /\ calls' = Append(calls, << "next" >>)
    /\ calls2' = Append(calls2, << "next" >>)
    /\ \E o \in EngineOutcomes(Len(produced), budget) :
          IF IterNext(o) # "None"
          THEN /\ chunk' = IterNext(o)
               /\ produced' = Append(produced, o)
               /\ pc' = "print"
               /\ UNCHANGED << streamHeld, endReason, deliveredAtFail >>
          ELSE /\ endReason' = o
               /\ deliveredAtFail' = IF o = "fail" THEN Len(stdout) ELSE -1
               /\ streamHeld' = Dropped(streamHeld)
               /\ pc' = "report"
               /\ UNCHANGED << chunk, produced >>
    /\ UNCHANGED << args, args2, feedResult, modelHeld, sessionHeld, diff, prompt,
                    sampler, budget, out, stdoutBuf, stdout, stderr, result,
                    errCtx, exitCode, start, submitAt, elapsed, stdout2 >>

\* print!("{}", chunk);
PrintChunk ==
    /\ pc = "print"
    /\ Tick
    /\ stages' = Append(stages, "write")
    /\ stdoutBuf' = Append(stdoutBuf, chunk)
    /\ pc' = "flush"
    /\ UNCHANGED << args, args2, feedResult, modelHeld, sessionHeld, streamHeld, diff,
                    prompt, sampler, budget, chunk, out, stdout, stderr,
                    result, errCtx, exitCode, start, submitAt, elapsed,
                    produced, pulls, endReason, deliveredAtFail, calls,
                    calls2, stdout2 >>

\* let _ = io::stdout().flush();
Flush ==
    /\ pc = "flush"
    /\ Tick
    /\ stdout' = FlushTo(stdoutBuf, stdout)
    /\ stdout2' = IF calls2 = calls THEN FlushTo(stdoutBuf, stdout2)
                                    ELSE Append(stdout2, "other")
    /\ stdoutBuf' = << >>
    /\ pc' = "push"
    /\ UNCHANGED << args, args2, feedResult, modelHeld, sessionHeld, streamHeld, diff,
                    prompt, sampler, budget, chunk, out, stderr, result,
                    errCtx, exitCode, start, submitAt, elapsed, produced,
                    pulls, endReason, deliveredAtFail, stages, calls,
                    calls2 >>

\* out.push_str(&chunk); and back to the head of the loop
PushStr ==
    /\ pc = "push"
    /\ Tick
    /\ out' = Append(out, chunk)
    /\ pc' = "pull"
    /\ UNCHANGED << args, args2, feedResult, modelHeld, sessionHeld, streamHeld, diff,
                    prompt, sampler, budget, chunk, stdoutBuf, stdout,
                    stderr, result, errCtx, exitCode, start, submitAt,
                    elapsed, produced, pulls, endReason, deliveredAtFail,
                    stages, calls, calls2, stdout2 >>

\* eprintln!("\n(generated in {:.2?})", start.elapsed());
Report ==
    /\ pc = "report"
    /\ Tick
    /\ stages' = Append(stages, "report")
    /\ elapsed' = now - start
    /\ stderr' = Append(stderr, "summary")
    /\ pc' = Succ(pc)
    /\ UNCHANGED << args, args2, feedResult, modelHeld, sessionHeld, streamHeld, diff,
                    prompt, sampler, budget, chunk, out, stdoutBuf, stdout,
                    result, errCtx, exitCode, start, submitAt, produced,
                    pulls, endReason, deliveredAtFail, calls, calls2,
                    stdout2 >>

\* Ok(())
Return ==
    /\ pc = "return"
    /\ Tick
    /\ result' = "ok"
    /\ pc' = Succ(pc)
    /\ UNCHANGED << args, args2, feedResult, modelHeld, sessionHeld, streamHeld, diff,
                    prompt, sampler, budget, chunk, out, stdoutBuf, stdout,
                    stderr, errCtx, exitCode, start, submitAt, elapsed,
                    produced, pulls, endReason, deliveredAtFail, stages,
                    calls, calls2, stdout2 >>

\* Leaving main() drops the locals in reverse order of declaration:
\* session (declared second) first ...
DropSession ==
    /\ pc = "drop_session"
    /\ Tick
    /\ sessionHeld' = Dropped(sessionHeld)
    /\ pc' = Succ(pc)
    /\ UNCHANGED << args, args2, feedResult, modelHeld, streamHeld, diff, prompt,
                    sampler, budget, chunk, out, stdoutBuf, stdout, stderr,
                    result, errCtx, exitCode, start, submitAt, elapsed,
                    produced, pulls, endReason, deliveredAtFail, stages,
                    calls, calls2, stdout2 >>

\* ... then model (declared first).
DropModel ==
    /\ pc = "drop_model"
    /\ Tick
    /\ modelHeld' = Dropped(modelHeld)
    /\ pc' = Succ(pc)
    /\ UNCHANGED << args, args2, feedResult, sessionHeld, streamHeld, diff, prompt,
                    sampler, budget, chunk, out, stdoutBuf, stdout, stderr,
                    result, errCtx, exitCode, start, submitAt, elapsed,
                    produced, pulls, endReason, deliveredAtFail, stages,
                    calls, calls2, stdout2 >>

\* fn main() -> Result<()>: Ok exits with status 0, Err prints the error
\* to standard error and exits with status 1.
Exit ==
    /\ pc = "exit"
    /\ exitCode = -1
    /\ exitCode' = IF result = "ok" THEN 0 ELSE 1
    /\ stderr' = IF result = "ok" THEN stderr ELSE Append(stderr, "error")
    /\ UNCHANGED << pc, args, args2, feedResult, modelHeld, sessionHeld, streamHeld,
                    diff, prompt, sampler, budget, chunk, out, stdoutBuf,
                    stdout, result, errCtx, now, start, submitAt, elapsed,
                    produced, pulls, endReason, deliveredAtFail, stages,
                    calls, calls2, stdout2 >>

Next ==
    \/ LoadModel
    \/ CreateSession
    \/ read_diff
    \/ BuildPrompt
    \/ FeedPrompt
    \/ MakeSampler
    \/ StartTimer
    \/ StartCompleting
    \/ Pull
    \/ PrintChunk
    \/ Flush
    \/ PushStr
    \/ Report
    \/ Return
    \/ DropSession
    \/ DropModel
    \/ Exit

Spec == Init /\ [][Next]_vars

\* The run has ended: main has returned and the process has exited.
Terminated == pc = "exit" /\ exitCode # -1

TypeOK ==
    /\ exitCode \in {-1, 0, 1}
    /\ result \in {"running", "ok", "err"}
    /\ feedResult \in {"none", "ok", "err"}

\* ------------------------------------------------------------ the claims
Range(f) == {f[i] : i \in DOMAIN f}

IsPrefix(a, b) == Len(a) <= Len(b) /\ SubSeq(b, 1, Len(a)) = a

\* The stream was started: start_completing_with returned Ok.
StreamStarted == budget # -1

\* The loop has been left.
StreamEnded == endReason # "none"

\* C1: if the engine fails on the k-th pull, exactly k-1 fragments were
\* delivered before the failure, they stay on standard output, and the
\* process ends with a failure status.
C1_MidStreamFailureSurfaced ==
    endReason = "fail" =>
        /\ deliveredAtFail = pulls - 1
        /\ Len(stdout) >= deliveredAtFail
        /\ result # "ok"
        /\ Terminated => exitCode # 0

\* C2: once advance_context has failed nothing is started, pulled, printed
\* or timed and the process exits with a non-zero status; completion is
\* started and fragments are pulled only after advance_context succeeded.
C2_FeedFailureStopsRun ==
    /\ feedResult = "err" =>
          /\ stdout = << >> /\ stdoutBuf = << >> /\ out = << >>
          /\ produced = << >> /\ pulls = 0
          /\ ~StreamStarted
          /\ "summary" \notin Range(stderr)
          /\ result # "ok"
          /\ Terminated => exitCode # 0
    /\ \A i \in DOMAIN calls :
          calls[i][1] \in {"start_completing_with", "next"} =>
              /\ feedResult = "ok"
              /\ \E j \in 1..(i - 1) : calls[j][1] = "advance_context"

C2_Witness ==
    /\ Terminated /\ feedResult = "err" /\ exitCode = 1
    /\ errCtx = "feeding prompt"

C6_ResourcesReleased ==
    /\ pc = "exit" => (~modelHeld /\ ~sessionHeld /\ ~streamHeld)
    /\ sessionHeld => modelHeld
    /\ streamHeld => sessionHeld
    /\ pc \in {"read_diff", "build_prompt", "feed", "sampler", "timer",
               "start_completing", "pull", "print", "flush", "push",
               "report", "return"} => (modelHeld /\ sessionHeld)
    /\ pc \in {"print", "flush", "push"} => streamHeld

C6_Witness ==
    /\ Terminated /\ result = "err" /\ endReason = "none"
    /\ errCtx = "start_completing_with"
    /\ "create_session" \in Range(stages)
    /\ ~modelHeld /\ ~sessionHeld

\* C7: the timer is started no later than the submission of the prompt, is
\* read only after the stream is exhausted, and the summary is written only
\* in runs that complete without a fatal error.
C7_ElapsedCoversSubmit ==
    /\ submitAt # -1 => (start # -1 /\ start <= submitAt)
    /\ elapsed # -1 => StreamEnded
    /\ "summary" \in Range(stderr) =>
          (endReason \in {"budget", "eos"} /\ result # "err")

\* Position of a stage in the order main() goes through them; a pull and
\* the write of what it returned alternate within the streaming stage.
Rank(st) ==
    CASE st = "load"             -> 1
      [] st = "create_session"   -> 2
      [] st = "read_diff"        -> 3
      [] st = "build_prompt"     -> 4
      [] st = "feed"             -> 5
      [] st = "start_completing" -> 6
      [] st = "pull"             -> 7
      [] st = "write"            -> 7
      [] st = "report"           -> 8

DiffReadFailed == errCtx \in {"io", "reading diff from"}

\* C8 (as stated): the diff is read and the prompt built before the model
\* and the session are created, so a failure to read the diff happens
\* before any resource has been acquired.
C8_DiffBeforeSession ==
    /\ \A i \in DOMAIN stages :
          stages[i] \in {"load", "create_session"} =>
              \E j \in 1..(i - 1) : stages[j] = "build_prompt"
    /\ DiffReadFailed =>
          ("load" \notin Range(stages)
             /\ "create_session" \notin Range(stages))

\* C8 (amended): the model is loaded and the session created first, then
\* the diff is read and the prompt built, then the prompt is fed, then
\* fragments are pulled and written, then the elapsed time is reported; a
\* failure to read the diff happens after the model and the session have
\* been acquired and before anything is fed.
C8_StageOrder ==
    /\ \A i, j \in DOMAIN stages :
          i < j => /\ Rank(stages[i]) <= Rank(stages[j])
                   /\ Rank(stages[i]) < 7 => Rank(stages[i]) < Rank(stages[j])
    /\ \A i \in DOMAIN stages :
          stages[i] = "write" => (i > 1 /\ stages[i - 1] = "pull")
    /\ DiffReadFailed =>
          stages = << "load", "create_session", "read_diff" >>
    /\ (DiffReadFailed /\ pc = "drop_session") =>
          (modelHeld /\ sessionHeld)

C8_Witness ==
    /\ Terminated /\ exitCode = 0
    /\ "report" \in Range(stages) /\ "write" \in Range(stages)
    /\ stages[3] = "read_diff"

\* C9: the prompt is the system-instructions block, then a user turn that
\* holds the trivial-change fallback and the diff verbatim between an
\* opening fence and a closing fence, then the assistant-turn marker.
C9_DiffFenced ==
    "build_prompt" \in Range(stages) =>
        LET h == Len(TemplateHead)
            n == Len(diff)
            s == Len(SYSTEM_INSTRUCTIONS)
        IN  /\ prompt = build_prompt(diff)
            /\ SubSeq(prompt, 2, s + 1) = SYSTEM_INSTRUCTIONS
            /\ \E i \in (s + 2)..h :
                  prompt[i] = "If the change is trivial (whitespace/comments), reply with \"chore: minor housekeeping\"."
            /\ prompt[h] = "FENCE diff"
            /\ SubSeq(prompt, h + 1, h + n) = diff
            /\ \E j \in (h + n + 1)..Len(prompt) : prompt[j] = "FENCE"
            /\ prompt[Len(prompt)] = "            <|assistant|>"

\* C10: the run with the other temperature, top_p and top_k issues the same
\* engine calls with the same arguments and writes the same text.
C10_HyperparametersInert ==
    /\ calls2 = calls
    /\ stdout2 = stdout
    /\ \A i \in DOMAIN calls :
          calls[i][1] = "start_completing_with" =>
              calls[i] = << "start_completing_with", "default",
                            args.max_tokens >>

C10_Witness ==
    /\ Terminated /\ Len(stdout) >= 1
    /\ args2.temperature # args.temperature
    /\ args2.top_p # args.top_p
    /\ args2.top_k # args.top_k
    /\ \E i \in DOMAIN calls : calls[i][1] = "start_completing_with"

====
